---- MODULE Spec2Model ----
(***************************************************************************)
(* A model of python/mxnet/symbol.py: the Symbol wrapper over the native   *)
(* symbolic-graph API (composition, shape inference, executor binding).    *)
(*                                                                         *)
(* Python values are modelled by records:                                  *)
(*   a container argument   [type, list, dict]   (type is the Python type  *)
(*                          name; list a sequence; dict a function from    *)
(*                          the key strings to the values)                 *)
(*   an NArray              [cls |-> "NArray", handle, shape, data]        *)
(*   an exception           [type, msg]  (NoErr when nothing was raised)   *)
(* A native handle is a positive integer; the null handle (None) is 0.     *)
(* heap[h] is the native graph behind the symbol handle h, wrappers[h] the *)
(* number of Symbol objects that were constructed around h, and freed[h]   *)
(* the number of times MXSymbolFree was called on h.                       *)
(***************************************************************************)
EXTENDS Integers, Sequences, FiniteSets, TLC

VARIABLES pc, inp, out, log, native, heap, symbols, wrappers, freed

vars == <<pc, inp, out, log, native, heap, symbols, wrappers, freed>>

(***************************************************************************)
(* Bounds of the model.                                                    *)
(***************************************************************************)
MaxArgs == 2
MaxAux == 1

ArgPool == <<"a", "b", "c", "d">>
AuxPool == <<"m", "v", "w">>
ExtraKey == "zz"

Range(s) == {s[i] : i \in 1..Len(s)}

EmptyDict == [k \in {} |-> 0]

(***************************************************************************)
(* Python values.                                                          *)
(***************************************************************************)
PyNone == [type |-> "NoneType", list |-> <<>>, dict |-> EmptyDict]
PyList(l) == [type |-> "list", list |-> l, dict |-> EmptyDict]
PyDict(d) == [type |-> "dict", list |-> <<>>, dict |-> d]
PyTuple(l) == [type |-> "tuple", list |-> l, dict |-> EmptyDict]

NArray(h, s) == [cls |-> "NArray", handle |-> h, shape |-> s, data |-> "user"]
Object == [cls |-> "object", handle |-> 0, shape |-> <<>>, data |-> ""]

NoErr == [type |-> "", msg |-> ""]
Raise(t, m) == [type |-> t, msg |-> m]

\* len() of a list, tuple or dict
PyLen(v) == IF v.type = "dict" THEN Cardinality(DOMAIN v.dict) ELSE Len(v.list)

(***************************************************************************)
(* The native symbol behind a handle: heap[h] is the graph of handle h.    *)
(***************************************************************************)
list_arguments(h) == heap[h].arguments
list_auxiliary_states(h) == heap[h].auxiliary_states

(***************************************************************************)
(* Symbol._get_narray_handle                                               *)
(***************************************************************************)
RECURSIVE DictHandles(_, _, _, _, _)
DictHandles(arg_key, args, arg_names, allow_missing, i) ==
    IF i > Len(arg_names) THEN [err |-> NoErr, handles |-> <<>>]
    ELSE LET name == arg_names[i] IN
         IF name \in Range(arg_names)
         THEN IF name \notin DOMAIN args
              THEN [err |-> Raise("KeyError", name), handles |-> <<>>]
              ELSE IF args[name].cls # "NArray"
              THEN [err |-> Raise("TypeError", "Only Accept list of NArrays or dict of str->NArray"),
                    handles |-> <<>>]
              ELSE LET rest == DictHandles(arg_key, args, arg_names, allow_missing, i + 1)
                   IN  IF rest.err # NoErr THEN rest
                       ELSE [err |-> NoErr, handles |-> <<args[name].handle>> \o rest.handles]
         ELSE IF allow_missing
              THEN LET rest == DictHandles(arg_key, args, arg_names, allow_missing, i + 1)
                   IN  IF rest.err # NoErr THEN rest
                       ELSE [err |-> NoErr, handles |-> <<0>> \o rest.handles]
              ELSE [err |-> Raise("ValueError", "Must specify all the arguments in " \o arg_key),
                    handles |-> <<>>]

LengthMismatch_OnlyShorter(args, arg_names) == Len(args) < Len(arg_names)

\* the length test of the list branch
LengthMismatch(args, arg_names) == Len(args) # Len(arg_names)

_get_narray_handle(arg_key, args, arg_names, allow_missing) ==
    IF args.type = "list"
    THEN IF LengthMismatch(args.list, arg_names)
         THEN [err |-> Raise("ValueError", "Length of " \o arg_key \o " do not match number of arguments"),
               handles |-> <<>>]
         ELSE IF \E i \in 1..Len(args.list) : args.list[i].cls # "NArray"
         THEN [err |-> Raise("TypeError", "Only Accept list of NArrays or dict of str->NArray"),
               handles |-> <<>>]
         ELSE [err |-> NoErr, handles |-> [i \in 1..Len(args.list) |-> args.list[i].handle]]
    ELSE IF args.type = "dict"
    THEN DictHandles(arg_key, args.dict, arg_names, allow_missing, 1)
    ELSE [err |-> Raise("TypeError", "Only Accept list of NArrays or dict of str->NArray"),
          handles |-> <<>>]

(***************************************************************************)
(* Symbol.bind                                                             *)
(***************************************************************************)
Context == [cls |-> "Context"]
NotContext == [cls |-> "object"]

\* a grad_req value: a string, a list of strings, a dict of str->str, or None
ReqStr(t) == [type |-> "str", str |-> t, list |-> <<>>, dict |-> EmptyDict]
ReqList(l) == [type |-> "list", str |-> "", list |-> l, dict |-> EmptyDict]
ReqDict(d) == [type |-> "dict", str |-> "", list |-> <<>>, dict |-> d]
ReqNone == [type |-> "NoneType", str |-> "", list |-> <<>>, dict |-> EmptyDict]

req_map == [null |-> 0, write |-> 1, add |-> 3]

NoExecutor == [handle |-> 0, arg_narrays |-> PyNone, grad_narrays |-> PyNone,
               auxiliary_states |-> PyNone]

Failed(e) == [err |-> e, executor |-> NoExecutor, log |-> <<>>]

\* the "setup requirements" block: which of the locals reqs_array and
\* req_array the three branches leave assigned
Requirements(grad_req, arguments) ==
    IF grad_req.type = "str"
    THEN IF grad_req.str \notin DOMAIN req_map
         THEN [err |-> Raise("ValueError", "grad_req must be in req_map"),
               assigned |-> FALSE, reqs_array |-> <<>>, req_array |-> <<>>]
         ELSE [err |-> NoErr, assigned |-> TRUE,
               reqs_array |-> [i \in 1..Len(arguments) |-> req_map[grad_req.str]],
               req_array |-> <<>>]
    ELSE IF grad_req.type = "list"
    THEN IF \E i \in 1..Len(grad_req.list) : grad_req.list[i] \notin DOMAIN req_map
         THEN [err |-> Raise("KeyError", "req_map"),
               assigned |-> FALSE, reqs_array |-> <<>>, req_array |-> <<>>]
         ELSE [err |-> NoErr, assigned |-> TRUE,
               reqs_array |-> [i \in 1..Len(grad_req.list) |-> req_map[grad_req.list[i]]],
               req_array |-> <<>>]
    ELSE IF grad_req.type = "dict"
    THEN IF \E i \in 1..Len(arguments) :
               /\ arguments[i] \in DOMAIN grad_req.dict
               /\ grad_req.dict[arguments[i]] \notin DOMAIN req_map
         THEN [err |-> Raise("KeyError", "req_map"),
               assigned |-> FALSE, reqs_array |-> <<>>, req_array |-> <<>>]
         ELSE [err |-> NoErr, assigned |-> FALSE, reqs_array |-> <<>>,
               req_array |-> [i \in 1..Len(arguments) |->
                                IF arguments[i] \in DOMAIN grad_req.dict
                                THEN req_map[grad_req.dict[arguments[i]]]
                                ELSE 0]]
    ELSE [err |-> NoErr, assigned |-> FALSE, reqs_array |-> <<>>, req_array |-> <<>>]

\* rc is the return code of the native MXExecutorBind, when it is reached
bind(self, ctx, args, args_grad, grad_req, aux_states_in, rc) ==
    IF ctx.cls # "Context" THEN Failed(Raise("TypeError", "Context type error"))
    ELSE
    LET args_handle == _get_narray_handle("args", args, list_arguments(self), FALSE) IN
    IF args_handle.err # NoErr THEN Failed(args_handle.err)
    ELSE
    LET args_grad_handle ==
            IF args_grad.type = "NoneType"
            THEN [err |-> NoErr, handles |-> [i \in 1..PyLen(args) |-> 0]]
            ELSE _get_narray_handle("args_grad", args_grad, list_arguments(self), TRUE) IN
    IF args_grad_handle.err # NoErr THEN Failed(args_grad_handle.err)
    ELSE
    LET aux_states == IF aux_states_in.type = "NoneType" THEN PyList(<<>>) ELSE aux_states_in
        aux_args_handle == _get_narray_handle("aux_states", aux_states,
                                              list_auxiliary_states(self), FALSE) IN
    IF aux_args_handle.err # NoErr THEN Failed(aux_args_handle.err)
    ELSE
    LET reqs == Requirements(grad_req, list_arguments(self)) IN
    IF reqs.err # NoErr THEN Failed(reqs.err)
    ELSE IF ~reqs.assigned
    THEN Failed(Raise("UnboundLocalError", "local variable 'reqs_array' referenced before assignment"))
    ELSE
    LET call == [fn |-> "MXExecutorBind", sym |-> self,
                 num_args |-> PyLen(args),
                 args_handle |-> args_handle.handles,
                 args_grad_handle |-> args_grad_handle.handles,
                 reqs_array |-> reqs.reqs_array,
                 num_aux |-> PyLen(aux_states),
                 aux_args_handle |-> aux_args_handle.handles] IN
    IF rc # 0
    THEN [err |-> Raise("MXNetError", "MXExecutorBind"), executor |-> NoExecutor, log |-> <<call>>]
    ELSE [err |-> NoErr,
          executor |-> [handle |-> 1, arg_narrays |-> args, grad_narrays |-> args_grad,
                        auxiliary_states |-> aux_states],
          log |-> <<call>>]

(***************************************************************************)
(* Symbol.infer_shape                                                      *)
(***************************************************************************)
\* ctypes conversion of a Python int to mx_uint (c_uint): the value is
\* reduced modulo the width of the type, with no range check.  The width is
\* scaled down from 2^32, which the model checker's integers cannot hold.
UIntModulus == 65536
mx_uint(x) == x % UIntModulus

\* the order in which a dict is iterated
KeyOrder == ArgPool \o AuxPool \o <<ExtraKey, "lhs", "rhs", "num_args">>
Keys(d) == SelectSeq(KeyOrder, LAMBDA k : k \in DOMAIN d)

RECURSIVE Flatten(_)
Flatten(ss) == IF ss = <<>> THEN <<>> ELSE Head(ss) \o Flatten(Tail(ss))

\* indptr after the shapes ss have been appended to sdata
IndPtr(ss) == [i \in 1..(Len(ss) + 1) |-> Len(Flatten(SubSeq(ss, 1, i - 1)))]

NoShapes == [arg_shapes |-> PyNone, out_shapes |-> PyNone, aux_shapes |-> PyNone]

InferFailed(e) == [err |-> e, ret |-> NoShapes, log |-> <<>>]

\* tuple(data[i][:ndim[i]]) for i in range(size)
ShapeList(size, ndim, data) == [i \in 1..size |-> SubSeq(data[i], 1, ndim[i])]

InferResult_Partial(answer) ==
    [arg_shapes |-> PyList(ShapeList(answer.arg_shape_size, answer.arg_shape_ndim,
                                     answer.arg_shape_data)),
     out_shapes |-> IF answer.complete # 0
                    THEN PyList(ShapeList(answer.out_shape_size, answer.out_shape_ndim,
                                          answer.out_shape_data))
                    ELSE PyNone,
     aux_shapes |-> IF answer.complete # 0
                    THEN PyList(ShapeList(answer.aux_shape_size, answer.aux_shape_ndim,
                                          answer.aux_shape_data))
                    ELSE PyNone]

\* what infer_shape returns once the native call has succeeded
InferResult(answer) ==
    IF answer.complete # 0
    THEN [arg_shapes |-> PyList(ShapeList(answer.arg_shape_size, answer.arg_shape_ndim,
                                          answer.arg_shape_data)),
          out_shapes |-> PyList(ShapeList(answer.out_shape_size, answer.out_shape_ndim,
                                          answer.out_shape_data)),
          aux_shapes |-> PyList(ShapeList(answer.aux_shape_size, answer.aux_shape_ndim,
                                          answer.aux_shape_data))]
    ELSE NoShapes

\* args: the positional shapes; kwargs: the named shapes; nat: what the
\* native MXSymbolInferShape returns and writes through its out-parameters
infer_shape(self, args, kwargs, nat) ==
    IF Len(args) # 0 /\ DOMAIN kwargs # {}
    THEN InferFailed(Raise("ValueError", "Can only specify known argument shapes either by positional or kwargs way."))
    ELSE
    LET vals == IF Len(args) # 0 THEN args
                ELSE [i \in 1..Len(Keys(kwargs)) |-> kwargs[Keys(kwargs)[i]]]
        bad  == IF Len(args) # 0
                THEN \E i \in 1..Len(vals) : vals[i].type \notin {"NoneType", "tuple"}
                ELSE \E i \in 1..Len(vals) : vals[i].type # "tuple"
    IN
    IF bad THEN InferFailed(Raise("TypeError", "Argument need to be shapes(tuple)"))
    ELSE
    LET shapes == [i \in 1..Len(vals) |-> vals[i].list]
        indptr == IndPtr(shapes)
        sdata  == Flatten(shapes)
        call == [fn |-> "MXSymbolInferShape", sym |-> self,
                 num_args |-> Len(indptr) - 1,
                 keys |-> IF Len(args) # 0 THEN <<>> ELSE Keys(kwargs),
                 indptr |-> [i \in 1..Len(indptr) |-> mx_uint(indptr[i])],
                 sdata |-> [i \in 1..Len(sdata) |-> mx_uint(sdata[i])]]
    IN
    IF nat.rc # 0
    THEN [err |-> Raise("MXNetError", "MXSymbolInferShape"), ret |-> NoShapes, log |-> <<call>>]
    ELSE [err |-> NoErr, ret |-> InferResult(nat), log |-> <<call>>]

(***************************************************************************)
(* Symbol.simple_bind                                                      *)
(***************************************************************************)
\* narray.zeros(shape, ctx): fresh zero-initialised storage
zeros(h, shape) == [cls |-> "NArray", handle |-> h, shape |-> shape, data |-> "zeros"]

\* handles of the storage that simple_bind allocates
ArgBase == 100
GradBase == 200
AuxStateBase == 300

Incomplete_Never(arg_shapes) == FALSE

\* the test "arg_shapes == None" on the inferred shapes
Incomplete(arg_shapes) == arg_shapes = PyNone

ArgStorage_AlwaysZeros(name, shape, kwargs, h) == zeros(h, shape)

\* the body of the loop over zip(list_arguments(), arg_shapes): the caller's
\* storage when the name was supplied, fresh zero storage otherwise
ArgStorage(name, shape, kwargs, h) ==
    IF name \in DOMAIN kwargs THEN kwargs[name] ELSE zeros(h, shape)

\* the call self.bind(ctx, arg_narrays, grad_narrays, grad_req, aux_narrays)
BindCall(self, ctx, args, args_grad, grad_req, aux_states) ==
    [fn |-> "Symbol.bind", sym |-> self, ctx |-> ctx, args |-> args,
     args_grad |-> args_grad, grad_req |-> grad_req, aux_states |-> aux_states]

\* zeros_ok: whether narray.zeros accepts the given ctx
simple_bind(self, ctx, grad_req, kwargs, nat, zeros_ok, rc) ==
    IF \E k \in DOMAIN kwargs : kwargs[k].cls # "NArray"
    THEN Failed(Raise("AttributeError", "shape"))
    ELSE
    LET input_shapes == [k \in DOMAIN kwargs |-> PyTuple(kwargs[k].shape)]
        inferred == infer_shape(self, <<>>, input_shapes, nat)
    IN
    IF inferred.err # NoErr
    THEN [err |-> inferred.err, executor |-> NoExecutor, log |-> inferred.log]
    ELSE IF Incomplete(inferred.ret.arg_shapes)
    THEN [err |-> Raise("ValueError", "Input node is not complete"),
          executor |-> NoExecutor, log |-> inferred.log]
    ELSE
    LET arg_shapes == inferred.ret.arg_shapes.list
        aux_shapes == inferred.ret.aux_shapes.list
        names == list_arguments(self)
        n == IF Len(names) < Len(arg_shapes) THEN Len(names) ELSE Len(arg_shapes)
        allocates == \/ \E i \in 1..n : names[i] \notin DOMAIN kwargs
                     \/ Len(arg_shapes) # 0
                     \/ Len(aux_shapes) # 0
    IN
    IF allocates /\ ~zeros_ok
    THEN [err |-> Raise("Exception", "zeros"), executor |-> NoExecutor, log |-> inferred.log]
    ELSE
    LET arg_narrays == [i \in 1..n |-> ArgStorage(names[i], arg_shapes[i], kwargs, ArgBase + i)]
        grad_narrays == [i \in 1..Len(arg_shapes) |-> zeros(GradBase + i, arg_shapes[i])]
        aux_narrays == [i \in 1..Len(aux_shapes) |-> zeros(AuxStateBase + i, aux_shapes[i])]
        bound == bind(self, ctx, PyList(arg_narrays), PyList(grad_narrays), grad_req,
                      PyList(aux_narrays), rc)
        delegated == BindCall(self, ctx, PyList(arg_narrays), PyList(grad_narrays),
                              grad_req, PyList(aux_narrays))
    IN [err |-> bound.err, executor |-> bound.executor,
        log |-> inferred.log \o <<delegated>> \o bound.log]

(***************************************************************************)
(* The values the calls are made with.                                     *)
(***************************************************************************)
Names(pool, n) == SubSeq(pool, 1, n)

\* position of a key in the iteration order: the handle of its storage
KeyIndex(k) == CHOOSE i \in 1..Len(KeyOrder) : KeyOrder[i] = k

Shape1 == <<2>>

\* a list or dict of storage for the names, or something that is neither
StorageLists(names, base) ==
    {PyList([i \in 1..k |-> NArray(base + i, Shape1)]) : k \in 0..(Len(names) + 1)}
    \cup (IF Len(names) = 0 THEN {}
          ELSE {PyList([i \in 1..Len(names) |->
                          IF i = 1 THEN Object ELSE NArray(base + i, Shape1)])})

StorageDicts(names, base) ==
    {PyDict([k \in K |-> NArray(base + KeyIndex(k), Shape1)]) : K \in SUBSET Range(names)}
    \cup {PyDict([k \in Range(names) \cup {ExtraKey} |-> NArray(base + KeyIndex(k), Shape1)])}
    \cup (IF Len(names) = 0 THEN {}
          ELSE {PyDict([k \in Range(names) |->
                          IF k = names[1] THEN Object ELSE NArray(base + KeyIndex(k), Shape1)])})

Storage(names, base) ==
    StorageLists(names, base) \cup StorageDicts(names, base) \cup {PyTuple(<<>>)}

GradReqs(names) ==
    {ReqStr(t) : t \in {"write", "add", "null", "bogus"}}
    \cup {ReqList([i \in 1..k |-> "add"]) : k \in 0..(Len(names) + 1)}
    \cup {ReqList([i \in 1..Len(names) |-> IF i = 1 THEN "bogus" ELSE "add"])}
    \cup {ReqDict([k \in K |-> "add"]) : K \in SUBSET Range(names)}
    \cup {ReqDict([k \in Range(names) |-> "write"])}
    \cup {ReqDict([k \in Range(names) |-> "bogus"])}
    \cup {ReqNone}

SimpleGradReqs(names) ==
    {ReqStr("write"), ReqStr("bogus"), ReqList([i \in 1..Len(names) |-> "add"]),
     ReqDict([k \in Range(names) |-> "write"])}

NoInput == [op |-> "", ctx |-> NotContext, args |-> PyNone, args_grad |-> PyNone,
            grad_req |-> ReqNone, aux_states |-> PyNone, kwargs |-> EmptyDict,
            shapes |-> <<>>]

BindInput(c, a, g, r, x) ==
    [NoInput EXCEPT !.op = "bind", !.ctx = c, !.args = a, !.args_grad = g,
                    !.grad_req = r, !.aux_states = x]

SimpleBindInput(c, r, k) ==
    [NoInput EXCEPT !.op = "simple_bind", !.ctx = c, !.grad_req = r, !.kwargs = k.dict]

Graphs ==
    {[arguments |-> Names(ArgPool, n), auxiliary_states |-> Names(AuxPool, m)] :
        n \in 1..MaxArgs, m \in 0..MaxAux}

(***************************************************************************)
(* What the native shape inference can answer for the symbol.              *)
(***************************************************************************)
MaxDim == 2
Buffer == <<2, 3, 4, 5>>

NatNone == [rc |-> 0, complete |-> 0,
            arg_shape_size |-> 0, arg_shape_ndim |-> <<>>, arg_shape_data |-> <<>>,
            out_shape_size |-> 0, out_shape_ndim |-> <<>>, out_shape_data |-> <<>>,
            aux_shape_size |-> 0, aux_shape_ndim |-> <<>>, aux_shape_data |-> <<>>]

NatShapes(complete, na, no, nx, d, e) ==
    [rc |-> 0, complete |-> complete,
     arg_shape_size |-> na, arg_shape_ndim |-> [i \in 1..na |-> d],
     arg_shape_data |-> [i \in 1..na |-> Buffer],
     out_shape_size |-> no, out_shape_ndim |-> [i \in 1..no |-> e],
     out_shape_data |-> [i \in 1..no |-> Buffer],
     aux_shape_size |-> nx, aux_shape_ndim |-> [i \in 1..nx |-> e],
     aux_shape_data |-> [i \in 1..nx |-> Buffer]]

InferAnswers ==
    {[NatNone EXCEPT !.rc = -1]}
    \cup {NatNone}
    \cup {NatShapes(c, na, no, nx, d, MaxDim - d) :
            c \in {0, 1, 2}, na \in 0..MaxArgs, no \in 0..1, nx \in 0..MaxAux,
            d \in 1..MaxDim}

(***************************************************************************)
(* Binding: one call of bind or simple_bind on a symbol.                   *)
(***************************************************************************)
InitBind ==
    /\ heap \in {<<g>> : g \in Graphs}
    /\ symbols = <<1>>
    /\ wrappers = <<1>>
    /\ freed = <<0>>
    /\ \/ \E c \in {Context, NotContext},
              a \in Storage(heap[1].arguments, 10),
              g \in {PyNone} \cup Storage(heap[1].arguments, 20),
              r \in GradReqs(heap[1].arguments),
              x \in {PyNone} \cup Storage(heap[1].auxiliary_states, 30) :
                inp = BindInput(c, a, g, r, x)
       \/ \E c \in {Context, NotContext},
              r \in SimpleGradReqs(heap[1].arguments),
              k \in StorageDicts(heap[1].arguments, 10) :
                inp = SimpleBindInput(c, r, k)
    /\ pc = "call"
    /\ out = [err |-> NoErr, executor |-> NoExecutor]
    /\ native = NatNone
    /\ log = <<>>

Bind ==
    /\ pc = "call"
    /\ inp.op = "bind"
    /\ \E rc \in {0, -1} :
         LET r == bind(symbols[1], inp.ctx, inp.args, inp.args_grad, inp.grad_req,
                       inp.aux_states, rc)
         IN  /\ out' = [err |-> r.err, executor |-> r.executor]
             /\ log' = r.log
    /\ pc' = "done"
    /\ UNCHANGED <<inp, native, heap, symbols, wrappers, freed>>

SimpleBind ==
    /\ pc = "call"
    /\ inp.op = "simple_bind"
    /\ \E rc \in {0, -1}, zeros_ok \in BOOLEAN, answer \in InferAnswers :
         LET r == simple_bind(symbols[1], inp.ctx, inp.grad_req, inp.kwargs, answer,
                              zeros_ok \/ inp.ctx = Context, rc)
         IN  /\ out' = [err |-> r.err, executor |-> r.executor]
             /\ log' = r.log
             /\ native' = IF r.log = <<>> THEN NatNone ELSE answer
    /\ pc' = "done"
    /\ UNCHANGED <<inp, heap, symbols, wrappers, freed>>

NextBind == Bind \/ SimpleBind

SpecBind == InitBind /\ [][NextBind]_vars

(***************************************************************************)
(* Shape inference: one call of infer_shape on a symbol.                   *)
(***************************************************************************)
PyInt == [type |-> "int", list |-> <<>>, dict |-> EmptyDict]

\* a shape argument: unknown, a tuple (also one with a negative entry), or
\* a value that is no sequence at all
ShapeValues == {PyNone, PyTuple(<<2, 3>>), PyTuple(<<-1, 2>>), PyInt}

InferInput(a, k) == [NoInput EXCEPT !.op = "infer_shape", !.shapes = a, !.kwargs = k]

InitInfer ==
    /\ heap = <<[arguments |-> Names(ArgPool, MaxArgs),
                 auxiliary_states |-> Names(AuxPool, MaxAux)]>>
    /\ symbols = <<1>>
    /\ wrappers = <<1>>
    /\ freed = <<0>>
    /\ \E n \in 0..MaxArgs :
         \E a \in [1..n -> ShapeValues],
            K \in SUBSET Range(Names(ArgPool, MaxArgs)) :
              \E k \in [K -> ShapeValues \ {PyNone}] :
                inp = InferInput(a, k)
    /\ pc = "call"
    /\ out = [err |-> NoErr, ret |-> NoShapes]
    /\ native = NatNone
    /\ log = <<>>

InferShape ==
    /\ pc = "call"
    /\ inp.op = "infer_shape"
    /\ \E answer \in InferAnswers :
         LET r == infer_shape(symbols[1], inp.shapes, inp.kwargs, answer)
         IN  /\ out' = [err |-> r.err, ret |-> r.ret]
             /\ log' = r.log
             /\ native' = IF r.log = <<>> THEN NatNone ELSE answer
    /\ pc' = "done"
    /\ UNCHANGED <<inp, heap, symbols, wrappers, freed>>

NextInfer == InferShape

SpecInfer == InitInfer /\ [][NextInfer]_vars

(***************************************************************************)
(* Properties of bind and simple_bind, checked under SpecBind.             *)
(***************************************************************************)
Self == symbols[1]

ArgumentCountMismatch(arg_key) ==
    Raise("ValueError", "Length of " \o arg_key \o " do not match number of arguments")
MissingArgument(arg_key) ==
    Raise("ValueError", "Must specify all the arguments in " \o arg_key)
MissingAuxiliaryState == {ArgumentCountMismatch("aux_states"), MissingArgument("aux_states")}
IncompleteBinding == Raise("ValueError", "Input node is not complete")

BindDone == pc = "done" /\ inp.op = "bind" /\ inp.ctx = Context
SimpleBindDone == pc = "done" /\ inp.op = "simple_bind"

\* the calls of the native fn that the operation made
Calls(fn) == {i \in 1..Len(log) : log[i].fn = fn}

\* a dict of NArrays
NArrayDict(v) == v.type = "dict" /\ \A k \in DOMAIN v.dict : v.dict[k].cls = "NArray"

ArgsResolve ==
    _get_narray_handle("args", inp.args, list_arguments(Self), FALSE).err = NoErr
ArgsGradResolve ==
    \/ inp.args_grad.type = "NoneType"
    \/ _get_narray_handle("args_grad", inp.args_grad, list_arguments(Self), TRUE).err = NoErr
AuxResolve ==
    _get_narray_handle("aux_states",
                       IF inp.aux_states.type = "NoneType" THEN PyList(<<>>) ELSE inp.aux_states,
                       list_auxiliary_states(Self), FALSE).err = NoErr

\* C2: bind, given a Context, with args a list whose length differs from
\* len(list_arguments()) fails with the argument-count-mismatch error; no
\* executor is created and the native bind is not called.
C2_PositionalLengthMismatch ==
    (BindDone /\ inp.args.type = "list"
              /\ Len(inp.args.list) # Len(list_arguments(Self)))
    => /\ out.err = ArgumentCountMismatch("args")
       /\ out.executor = NoExecutor
       /\ Calls("MXExecutorBind") = {}

C2_Witness ==
    /\ BindDone /\ inp.args.type = "list"
    /\ Len(inp.args.list) > Len(list_arguments(Self))
    /\ out.err = ArgumentCountMismatch("args")

\* C3: bind with args a dict of NArrays that omits a name of
\* list_arguments() fails with the MissingArgument error ("Must specify all
\* the arguments in args") and with no other kind of error.
C3_MissingArgument ==
    (BindDone /\ NArrayDict(inp.args)
              /\ ~(Range(list_arguments(Self)) \subseteq DOMAIN inp.args.dict))
    => /\ out.err = MissingArgument("args")
       /\ out.executor = NoExecutor

\* C4: bind with args_grad a dict of NArrays naming a strict subset of
\* list_arguments(), all else being acceptable, reaches the native bind with
\* a gradient handle array that has one entry per argument, in order: the
\* supplied handle for a named argument and the null handle for the others.
C4_PartialArgsGrad ==
    (BindDone /\ ArgsResolve /\ AuxResolve /\ inp.grad_req = ReqStr("write")
              /\ NArrayDict(inp.args_grad)
              /\ DOMAIN inp.args_grad.dict \subseteq Range(list_arguments(Self))
              /\ DOMAIN inp.args_grad.dict # Range(list_arguments(Self)))
    => /\ Calls("MXExecutorBind") # {}
       /\ \A c \in Calls("MXExecutorBind") :
            log[c].args_grad_handle =
                [i \in 1..Len(list_arguments(Self)) |->
                    IF list_arguments(Self)[i] \in DOMAIN inp.args_grad.dict
                    THEN inp.args_grad.dict[list_arguments(Self)[i]].handle
                    ELSE 0]

\* C5: bind with grad_req a dict from argument names to policy tokens, all
\* else being acceptable, reaches the native bind with one policy per
\* argument, in order: the code of the mapped token for a named argument and
\* 0 ('null') for an omitted one.
C5_GradReqDict ==
    (BindDone /\ ArgsResolve /\ ArgsGradResolve /\ AuxResolve
              /\ inp.grad_req.type = "dict"
              /\ \A k \in DOMAIN inp.grad_req.dict : inp.grad_req.dict[k] \in DOMAIN req_map)
    => /\ Calls("MXExecutorBind") # {}
       /\ \A c \in Calls("MXExecutorBind") :
            log[c].reqs_array =
                [i \in 1..Len(list_arguments(Self)) |->
                    IF list_arguments(Self)[i] \in DOMAIN inp.grad_req.dict
                    THEN req_map[inp.grad_req.dict[list_arguments(Self)[i]]]
                    ELSE 0]

\* C6: bind with grad_req a list whose length differs from
\* len(list_arguments()) fails before the native bind: the native bind is
\* never called with a policy array whose length is not the argument count.
C6_GradReqListLength ==
    (pc = "done" /\ inp.op = "bind" /\ inp.grad_req.type = "list"
                 /\ Len(inp.grad_req.list) # Len(list_arguments(Self)))
    => /\ out.err # NoErr
       /\ \A c \in Calls("MXExecutorBind") :
            Len(log[c].reqs_array) = Len(list_arguments(Self))

\* the auxiliary states are not all covered by aux_states
AuxNotCovered ==
    \/ inp.aux_states.type = "NoneType" /\ Len(list_auxiliary_states(Self)) # 0
    \/ inp.aux_states.type = "list"
         /\ Len(inp.aux_states.list) # Len(list_auxiliary_states(Self))
    \/ NArrayDict(inp.aux_states)
         /\ ~(Range(list_auxiliary_states(Self)) \subseteq DOMAIN inp.aux_states.dict)

\* C7: bind, its args and args_grad being acceptable, fails with the
\* MissingAuxiliaryState error whenever aux_states (omitted, a list or a
\* dict) does not cover every name of list_auxiliary_states(); no executor
\* is created.
C7_MissingAuxiliaryState ==
    (BindDone /\ ArgsResolve /\ ArgsGradResolve /\ AuxNotCovered)
    => /\ out.err \in MissingAuxiliaryState
       /\ out.executor = NoExecutor
       /\ Calls("MXExecutorBind") = {}

\* the native inference was asked and could not resolve every shape
InferenceIncomplete ==
    Calls("MXSymbolInferShape") # {} /\ native.rc = 0 /\ native.complete = 0

InferenceComplete ==
    /\ Calls("MXSymbolInferShape") # {}
    /\ native.rc = 0
    /\ native.complete # 0
    /\ native.arg_shape_size = Len(list_arguments(Self))
    /\ native.aux_shape_size = Len(list_auxiliary_states(Self))

\* narray.zeros itself raised while simple_bind was allocating
AllocationFailed == out.err = Raise("Exception", "zeros")

ArgShape(i) == SubSeq(native.arg_shape_data[i], 1, native.arg_shape_ndim[i])
AuxShape(i) == SubSeq(native.aux_shape_data[i], 1, native.aux_shape_ndim[i])

IsZeros(v, shape) == v.cls = "NArray" /\ v.data = "zeros" /\ v.shape = shape

\* the storage objects that the delegated call b carries and the caller did
\* not supply
Allocated(b) ==
    SelectSeq(b.args.list, LAMBDA v : v.data = "zeros")
        \o b.args_grad.list \o b.aux_states.list

Fresh(b) ==
    LET a == Allocated(b) IN
    /\ \A i, j \in 1..Len(a) : i # j => a[i].handle # a[j].handle
    /\ \A i \in 1..Len(a), k \in DOMAIN inp.kwargs : a[i].handle # inp.kwargs[k].handle

\* C11: when the inference from the supplied storage is complete (and the
\* allocation itself does not fail), simple_bind calls bind exactly once,
\* with the caller's ctx and grad_req unchanged, with a list of one storage
\* object per name of list_arguments(), in that order, which is the caller's
\* own object for a supplied name and fresh zero storage of the inferred
\* shape otherwise, with one fresh zero gradient buffer of the inferred shape
\* per argument, supplied or not, and with one fresh zero buffer of the
\* inferred shape per auxiliary state.
C11_SimpleBindDelegates ==
    (SimpleBindDone /\ InferenceComplete /\ ~AllocationFailed)
    => \E c \in Calls("Symbol.bind") :
         LET b == log[c]
             names == list_arguments(Self)
             aux == list_auxiliary_states(Self)
         IN  /\ Calls("Symbol.bind") = {c}
             /\ b.sym = Self
             /\ b.ctx = inp.ctx
             /\ b.grad_req = inp.grad_req
             /\ b.args.type = "list"
             /\ Len(b.args.list) = Len(names)
             /\ \A i \in 1..Len(names) :
                   IF names[i] \in DOMAIN inp.kwargs
                   THEN b.args.list[i] = inp.kwargs[names[i]]
                   ELSE IsZeros(b.args.list[i], ArgShape(i))
             /\ b.args_grad.type = "list"
             /\ Len(b.args_grad.list) = Len(names)
             /\ \A i \in 1..Len(names) : IsZeros(b.args_grad.list[i], ArgShape(i))
             /\ b.aux_states.type = "list"
             /\ Len(b.aux_states.list) = Len(aux)
             /\ \A i \in 1..Len(aux) : IsZeros(b.aux_states.list[i], AuxShape(i))
             /\ Fresh(b)

C11_Witness ==
    /\ SimpleBindDone
    /\ InferenceComplete
    /\ out.err = NoErr
    /\ Calls("Symbol.bind") # {}
    /\ Len(list_auxiliary_states(Self)) > 0
    /\ \E i, j \in 1..Len(list_arguments(Self)) :
          /\ list_arguments(Self)[i] \in DOMAIN inp.kwargs
          /\ list_arguments(Self)[j] \notin DOMAIN inp.kwargs

\* C13: whenever bind reaches the native MXExecutorBind, the argument count
\* passed, the lengths of the argument handle array, of the gradient handle
\* array and of the gradient-policy array all equal len(list_arguments()),
\* and the auxiliary count passed equals the length of the auxiliary handle
\* array and len(list_auxiliary_states()).
C13_NativeBindLengths ==
    \A c \in Calls("MXExecutorBind") :
        /\ log[c].num_args = Len(list_arguments(Self))
        /\ Len(log[c].args_handle) = Len(list_arguments(Self))
        /\ Len(log[c].args_grad_handle) = Len(list_arguments(Self))
        /\ Len(log[c].reqs_array) = Len(list_arguments(Self))
        /\ log[c].num_aux = Len(list_auxiliary_states(Self))
        /\ Len(log[c].aux_args_handle) = Len(list_auxiliary_states(Self))

(***************************************************************************)
(* Properties of infer_shape, checked under SpecInfer.                     *)
(***************************************************************************)
InferDone == pc = "done" /\ inp.op = "infer_shape"

\* not an ordered sequence of non-negative integers
Malformed(v) == v.type # "tuple" \/ \E i \in 1..Len(v.list) : v.list[i] < 0

SomeMalformed ==
    \/ \E i \in 1..Len(inp.shapes) : inp.shapes[i] # PyNone /\ Malformed(inp.shapes[i])
    \/ \E k \in DOMAIN inp.kwargs : Malformed(inp.kwargs[k])

BothForms == Len(inp.shapes) # 0 /\ DOMAIN inp.kwargs # {}

\* C9: infer_shape rejects, with a TypeError or ValueError and before the
\* native inference is called, the call that supplies both positional and
\* named shapes and the call in which a provided shape is not an ordered
\* sequence of non-negative integers; every other call (a None entry in the
\* positional form included) is accepted and reaches the native inference.
C9_RejectsMalformed ==
    InferDone
    => IF BothForms \/ SomeMalformed
       THEN /\ out.err.type \in {"TypeError", "ValueError"}
            /\ Calls("MXSymbolInferShape") = {}
       ELSE Calls("MXSymbolInferShape") # {}

\* C10: infer_shape returns (None, None, None), without raising, when the
\* native inference reports incompleteness, and otherwise three lists of
\* concrete shapes whose lengths are the argument, output and auxiliary-state
\* counts the native call reported; never a result of which only a part is
\* None.
C10_AllOrNothing ==
    InferDone
    => /\ (Calls("MXSymbolInferShape") # {} /\ native.rc = 0 /\ native.complete = 0)
            => out.err = NoErr /\ out.ret = NoShapes
       /\ (Calls("MXSymbolInferShape") # {} /\ native.rc = 0 /\ native.complete # 0)
            => /\ out.err = NoErr
               /\ out.ret.arg_shapes.type = "list"
               /\ out.ret.out_shapes.type = "list"
               /\ out.ret.aux_shapes.type = "list"
               /\ Len(out.ret.arg_shapes.list) = native.arg_shape_size
               /\ Len(out.ret.out_shapes.list) = native.out_shape_size
               /\ Len(out.ret.aux_shapes.list) = native.aux_shape_size
               /\ \A i \in 1..native.arg_shape_size :
                    Len(out.ret.arg_shapes.list[i]) = native.arg_shape_ndim[i]
               /\ \A i \in 1..native.out_shape_size :
                    Len(out.ret.out_shapes.list[i]) = native.out_shape_ndim[i]
               /\ \A i \in 1..native.aux_shape_size :
                    Len(out.ret.aux_shapes.list[i]) = native.aux_shape_ndim[i]
       /\ (out.ret.arg_shapes = PyNone) <=> (out.ret.out_shapes = PyNone)
       /\ (out.ret.out_shapes = PyNone) <=> (out.ret.aux_shapes = PyNone)

C10_Witness ==
    /\ InferDone
    /\ native.complete # 0
    /\ native.arg_shape_size > 0
    /\ out.err = NoErr
    /\ Len(out.ret.arg_shapes.list) = native.arg_shape_size

(***************************************************************************)
(* Symbols: the native graph store and the Python wrappers.                *)
(*   heap[h]     the native symbol of handle h (handles are given out in   *)
(*               order, so Len(heap) handles have been created)            *)
(*   symbols[i]  the handle held by the i-th Symbol object the program has *)
(***************************************************************************)
MaxHandles == 3
MaxInputs == 2

\* a Python value passed as an input: a Symbol object or an int
Symbol(h) == [cls |-> "Symbol", handle |-> h, value |-> 0]
IntValue(v) == [cls |-> "int", handle |-> 0, value |-> v]
PyStr(t) == [type |-> "str", str |-> t]
NotStr == [type |-> "int", str |-> ""]

NativeSymbol(arguments) == [arguments |-> arguments, auxiliary_states |-> <<>>]

\* MXSymbolCompose on the graph sym with the graphs inputs: positional
\* inputs fill the first arguments in order, named inputs fill the
\* arguments of their names; the arguments of an input take the place of
\* the argument it fills
RECURSIVE Splice(_, _, _, _)
Splice(arguments, keys, inputs, i) ==
    IF i > Len(arguments) THEN <<>>
    ELSE LET filled == IF keys = <<>>
                       THEN IF i <= Len(inputs) THEN i ELSE 0
                       ELSE IF \E j \in 1..Len(keys) : keys[j] = arguments[i]
                            THEN CHOOSE j \in 1..Len(keys) : keys[j] = arguments[i]
                            ELSE 0
         IN  (IF filled = 0 THEN <<arguments[i]>> ELSE inputs[filled].arguments)
             \o Splice(arguments, keys, inputs, i + 1)

MXSymbolCompose(sym, keys, inputs) ==
    IF \/ keys = <<>> /\ Len(inputs) > Len(sym.arguments)
       \/ \E j \in 1..Len(keys) : keys[j] \notin Range(sym.arguments)
    THEN [rc |-> -1, sym |-> sym]
    ELSE [rc |-> 0,
          sym |-> [sym EXCEPT !.arguments = Splice(sym.arguments, keys, inputs, 1)]]

\* MXSymbolCopy: an independent graph with the same content
MXSymbolCopy(sym) == sym

BothGiven_Never(args, kwargs) == FALSE

\* the test "len(args) != 0 and len(kwargs) != 0" of _compose
BothGiven(args, kwargs) == Len(args) # 0 /\ DOMAIN kwargs # {}

\* the two isinstance loops of _compose
NotAllSymbols(args, kwargs) ==
    \/ \E i \in 1..Len(args) : args[i].cls # "Symbol"
    \/ \E k \in DOMAIN kwargs : kwargs[k].cls # "Symbol"

\* Symbol._compose on the symbol of handle self, in the store hp
_compose(hp, self, args, kwargs) ==
    IF BothGiven(args, kwargs)
    THEN [err |-> Raise("TypeError", "compose only accept input Symbols either as positional or keyword arguments, not both"),
          heap |-> hp, log |-> <<>>]
    ELSE IF NotAllSymbols(args, kwargs)
    THEN [err |-> Raise("TypeError", "Compose expect Symbol as arguments"),
          heap |-> hp, log |-> <<>>]
    ELSE
    LET keys == Keys(kwargs)
        handles == IF DOMAIN kwargs # {}
                   THEN [i \in 1..Len(keys) |-> kwargs[keys[i]].handle]
                   ELSE [i \in 1..Len(args) |-> args[i].handle]
        call == [fn |-> "MXSymbolCompose", sym |-> self,
                 num_args |-> Len(args) + Cardinality(DOMAIN kwargs),
                 keys |-> keys, args |-> handles]
        r == MXSymbolCompose(hp[self], keys, [i \in 1..Len(handles) |-> hp[handles[i]]])
    IN  IF r.rc # 0
        THEN [err |-> Raise("MXNetError", "MXSymbolCompose"), heap |-> hp, log |-> <<call>>]
        ELSE [err |-> NoErr, heap |-> [hp EXCEPT ![self] = r.sym], log |-> <<call>>]

ComposedSymbol_Self(self, s) == self

\* Symbol.__call__: the symbol that is composed, given the handle of self
\* and the handle s of its deep copy
ComposedSymbol(self, s) == s

\* the values a call can be given: the Symbol objects at hand and an int
Values == {Symbol(symbols[i]) : i \in 1..Len(symbols)} \cup {IntValue(2)}
KwKeys == {"a", "lhs", "num_args"}
Positionals == UNION {[1..n -> Values] : n \in 0..MaxInputs}
Keywords == {EmptyDict} \cup UNION {[{k} -> Values] : k \in KwKeys}

\* the inputs of one call: positional inputs, named inputs, or both at once
CallInputs ==
    {io \in Positionals \X Keywords : io[2] = EmptyDict \/ Len(io[1]) <= 1}

SymInput(op, self, name, args, kwargs) ==
    [op |-> op, self |-> self, name |-> name, args |-> args, kwargs |-> kwargs,
     wrt |-> <<>>]

InitSymbol ==
    /\ heap = <<>>
    /\ symbols = <<>>
    /\ wrappers = <<>>
    /\ freed = <<>>
    /\ pc = "main"
    /\ inp = SymInput("", 0, NotStr, <<>>, EmptyDict)
    /\ out = [err |-> NoErr, ret |-> 0]
    /\ native = NatNone
    /\ log = <<>>

\* Variable(name)
Variable ==
    /\ pc = "main"
    /\ Len(heap) < MaxHandles
    /\ \E name \in {PyStr("a"), PyStr("b"), NotStr} :
         /\ inp' = SymInput("Variable", 0, name, <<>>, EmptyDict)
         /\ IF name.type # "str"
            THEN /\ out' = [err |-> Raise("TypeError", "Expect a string for variable name"),
                            ret |-> 0]
                 /\ log' = <<>>
                 /\ UNCHANGED <<heap, symbols, wrappers, freed>>
            ELSE /\ heap' = Append(heap, NativeSymbol(<<name.str>>))
                 /\ symbols' = Append(symbols, Len(heap) + 1)
                 /\ wrappers' = Append(wrappers, 1)
                 /\ freed' = Append(freed, 0)
                 /\ out' = [err |-> NoErr, ret |-> Len(heap) + 1]
                 /\ log' = <<[fn |-> "MXSymbolCreateVariable", sym |-> Len(heap) + 1]>>
    /\ pc' = "returned"
    /\ UNCHANGED native

\* Symbol.__copy__ and Symbol.__deepcopy__
Copy ==
    /\ pc = "main"
    /\ Len(heap) < MaxHandles
    /\ \E i \in 1..Len(symbols) :
         /\ inp' = SymInput("__deepcopy__", i, NotStr, <<>>, EmptyDict)
         /\ heap' = Append(heap, MXSymbolCopy(heap[symbols[i]]))
         /\ symbols' = Append(symbols, Len(heap) + 1)
         /\ wrappers' = Append(wrappers, 1)
         /\ freed' = Append(freed, 0)
         /\ out' = [err |-> NoErr, ret |-> Len(heap) + 1]
         /\ log' = <<[fn |-> "MXSymbolCopy", sym |-> symbols[i]]>>
    /\ pc' = "returned"
    /\ UNCHANGED native

\* Symbol.__del__ of a Symbol object that has become garbage
MXSymbolFree(h) == [fn |-> "MXSymbolFree", sym |-> h]

\* Symbol.__call__: when _compose raises, the copy s is garbage as soon as
\* the exception has left the call
Call ==
    /\ pc = "main"
    /\ Len(heap) < MaxHandles
    /\ \E i \in 1..Len(symbols), io \in CallInputs :
         LET args == io[1]
             kwargs == io[2]
             s == Len(heap) + 1
             copied == Append(heap, MXSymbolCopy(heap[symbols[i]]))
             r == _compose(copied, ComposedSymbol(symbols[i], s), args, kwargs)
         IN  /\ inp' = SymInput("__call__", i, NotStr, args, kwargs)
             /\ heap' = r.heap
             /\ wrappers' = Append(wrappers, 1)
             /\ IF r.err # NoErr
                THEN /\ out' = [err |-> r.err, ret |-> 0]
                     /\ log' = <<[fn |-> "MXSymbolCopy", sym |-> symbols[i]]>> \o r.log
                                \o <<MXSymbolFree(s)>>
                     /\ freed' = Append(freed, 1)
                     /\ UNCHANGED symbols
                ELSE /\ out' = [err |-> NoErr, ret |-> s]
                     /\ log' = <<[fn |-> "MXSymbolCopy", sym |-> symbols[i]]>> \o r.log
                     /\ freed' = Append(freed, 0)
                     /\ symbols' = Append(symbols, s)
    /\ pc' = "returned"
    /\ UNCHANGED native

(***************************************************************************)
(* The atomic symbol functions that _make_atomic_symbol_function builds    *)
(* from the operator registry: one with fixed inputs and one that takes a  *)
(* variable number of positional inputs.                                   *)
(***************************************************************************)
VarArgPool == <<"arg0", "arg1", "arg2", "arg3">>

AtomicSymbolCreators ==
    {[func_name |-> "_Plus", arguments |-> <<"lhs", "rhs">>, key_var_num_args |-> ""],
     [func_name |-> "Concat", arguments |-> <<>>, key_var_num_args |-> "num_args"]}

\* MXSymbolCreateAtomicSymbol: params is a function from the parameter keys
\* to their values; the operator rejects a parameter it does not have
MXSymbolCreateAtomicSymbol(op, params) ==
    IF op.key_var_num_args = ""
    THEN IF DOMAIN params # {} THEN [rc |-> -1, sym |-> NativeSymbol(<<>>)]
         ELSE [rc |-> 0, sym |-> NativeSymbol(op.arguments)]
    ELSE IF DOMAIN params # {op.key_var_num_args}
         THEN [rc |-> -1, sym |-> NativeSymbol(<<>>)]
         ELSE [rc |-> 0,
               sym |-> NativeSymbol(SubSeq(VarArgPool, 1, params[op.key_var_num_args]))]

\* creator(*args, **kwargs) of the operator op, in the store hp; wrapped
\* tells whether Symbol(sym_handle) was reached
creator(hp, op, args, kwargs) ==
    LET symbol_kwargs == [k \in {j \in DOMAIN kwargs : kwargs[j].cls = "Symbol"} |-> kwargs[k]]
        given == [k \in {j \in DOMAIN kwargs : kwargs[j].cls # "Symbol"} |-> kwargs[k].value]
        params == IF op.key_var_num_args # "" /\ op.key_var_num_args \notin DOMAIN kwargs
                  THEN [k \in DOMAIN given \cup {op.key_var_num_args} |->
                          IF k = op.key_var_num_args THEN Len(args) ELSE given[k]]
                  ELSE given
        created == MXSymbolCreateAtomicSymbol(op, params)
        create == [fn |-> "MXSymbolCreateAtomicSymbol", sym |-> Len(hp) + 1]
    IN
    IF created.rc # 0
    THEN [err |-> Raise("MXNetError", "MXSymbolCreateAtomicSymbol"), heap |-> hp,
          log |-> <<>>, ret |-> 0, wrapped |-> FALSE]
    ELSE
    LET sym_handle == Len(hp) + 1
        hp1 == Append(hp, created.sym)
    IN
    IF Len(args) # 0 /\ DOMAIN symbol_kwargs # {}
    THEN [err |-> Raise("TypeError", op.func_name \o " can only accept input Symbols either as positional or keyword arguments, not both"),
          heap |-> hp1, log |-> <<create>>, ret |-> 0, wrapped |-> FALSE]
    ELSE IF op.key_var_num_args # "" /\ DOMAIN symbol_kwargs # {}
    THEN [err |-> Raise("ValueError", "This function support variable length of Symbol arguments."),
          heap |-> hp1, log |-> <<create>>, ret |-> 0, wrapped |-> FALSE]
    ELSE
    LET r == _compose(hp1, sym_handle, args, symbol_kwargs)
    IN  IF r.err # NoErr
        THEN [err |-> r.err, heap |-> r.heap,
              log |-> <<create>> \o r.log \o <<MXSymbolFree(sym_handle)>>,
              ret |-> 0, wrapped |-> TRUE]
        ELSE [err |-> NoErr, heap |-> r.heap, log |-> <<create>> \o r.log,
              ret |-> sym_handle, wrapped |-> TRUE]

Creator ==
    /\ pc = "main"
    /\ Len(heap) < MaxHandles
    /\ \E op \in AtomicSymbolCreators, io \in CallInputs :
         LET args == io[1]
             kwargs == io[2]
             r == creator(heap, op, args, kwargs)
         IN  /\ inp' = SymInput(op.func_name, 0, NotStr, args, kwargs)
             /\ heap' = r.heap
             /\ log' = r.log
             /\ out' = [err |-> r.err, ret |-> r.ret]
             /\ symbols' = IF r.err = NoErr THEN Append(symbols, r.ret) ELSE symbols
             /\ IF Len(r.heap) = Len(heap)
                THEN UNCHANGED <<wrappers, freed>>
                ELSE /\ wrappers' = Append(wrappers, IF r.wrapped THEN 1 ELSE 0)
                     /\ freed' = Append(freed, IF r.wrapped /\ r.err # NoErr THEN 1 ELSE 0)
    /\ pc' = "returned"
    /\ UNCHANGED native

\* the program takes the result of the call and goes on
Continue ==
    /\ pc = "returned"
    /\ pc' = "main"
    /\ inp' = SymInput("", 0, NotStr, <<>>, EmptyDict)
    /\ out' = [err |-> NoErr, ret |-> 0]
    /\ log' = <<>>
    /\ UNCHANGED <<native, heap, symbols, wrappers, freed>>

\* MXSymbolCreateGroup: a graph whose outputs are those of the grouped
\* graphs, in order, and whose arguments are theirs
MXSymbolCreateGroup(inputs) ==
    NativeSymbol(Flatten([i \in 1..Len(inputs) |-> inputs[i].arguments]))

\* Group(symbols)
Group ==
    /\ pc = "main"
    /\ Len(heap) < MaxHandles
    /\ \E syms \in Positionals :
         /\ inp' = SymInput("Group", 0, NotStr, syms, EmptyDict)
         /\ IF \E i \in 1..Len(syms) : syms[i].cls # "Symbol"
            THEN /\ out' = [err |-> Raise("TypeError", "Expect Symbols in the list input"),
                            ret |-> 0]
                 /\ log' = <<>>
                 /\ UNCHANGED <<heap, symbols, wrappers, freed>>
            ELSE LET ihandles == [i \in 1..Len(syms) |-> syms[i].handle]
                     handle == Len(heap) + 1
                 IN  /\ heap' = Append(heap, MXSymbolCreateGroup(
                                                [i \in 1..Len(ihandles) |-> heap[ihandles[i]]]))
                     /\ symbols' = Append(symbols, handle)
                     /\ wrappers' = Append(wrappers, 1)
                     /\ freed' = Append(freed, 0)
                     /\ out' = [err |-> NoErr, ret |-> handle]
                     /\ log' = <<[fn |-> "MXSymbolCreateGroup", sym |-> handle,
                                  num_symbols |-> Len(ihandles), symbols |-> ihandles]>>
    /\ pc' = "returned"
    /\ UNCHANGED native

\* MXSymbolGrad: the gradient graph of sym with respect to the arguments
\* named in wrt, which must be arguments of sym
MXSymbolGrad(sym, wrt) ==
    IF \E i \in 1..Len(wrt) : wrt[i] \notin Range(sym.arguments)
    THEN [rc |-> -1, sym |-> NativeSymbol(<<>>)]
    ELSE [rc |-> 0, sym |-> NativeSymbol(sym.arguments)]

\* the lists of names that grad is called with
WrtInputs == {<<>>, <<"a">>, <<ExtraKey>>}

GradInput(self, wrt) ==
    [SymInput("grad", self, NotStr, <<>>, EmptyDict) EXCEPT !.wrt = wrt]

\* Symbol.grad(wrt)
Grad ==
    /\ pc = "main"
    /\ Len(heap) < MaxHandles
    /\ \E i \in 1..Len(symbols), wrt \in WrtInputs :
         LET r == MXSymbolGrad(heap[symbols[i]], wrt)
             handle == Len(heap) + 1
         IN  /\ inp' = GradInput(i, wrt)
             /\ IF r.rc # 0
                THEN /\ out' = [err |-> Raise("MXNetError", "MXSymbolGrad"), ret |-> 0]
                     /\ log' = <<>>
                     /\ UNCHANGED <<heap, symbols, wrappers, freed>>
                ELSE /\ heap' = Append(heap, r.sym)
                     /\ symbols' = Append(symbols, handle)
                     /\ wrappers' = Append(wrappers, 1)
                     /\ freed' = Append(freed, 0)
                     /\ out' = [err |-> NoErr, ret |-> handle]
                     /\ log' = <<[fn |-> "MXSymbolGrad", sym |-> symbols[i],
                                  num_wrt |-> Len(wrt), wrt |-> wrt]>>
    /\ pc' = "returned"
    /\ UNCHANGED native

NextSymbol == Variable \/ Copy \/ Call \/ Creator \/ Group \/ Grad \/ Continue

SpecSymbol == InitSymbol /\ [][NextSymbol]_vars

InvalidArgument == {"TypeError", "ValueError"}

CreatorNames == {op.func_name : op \in AtomicSymbolCreators}

SymbolKeywords(kwargs) == {k \in DOMAIN kwargs : kwargs[k].cls = "Symbol"}

\* what a call that composes must do when it rejects its inputs
Rejected ==
    /\ out'.err.type \in InvalidArgument
    /\ \A c \in 1..Len(log') : log'[c].fn # "MXSymbolCompose"
    /\ \A h \in 1..Len(heap) : heap'[h] = heap[h]

\* C12: a call that composes is rejected when it is given both positional
\* and named Symbol inputs, or an input that is not a Symbol: it fails with
\* InvalidArgument, the native compose is not called and no existing node
\* changes.  The inputs of an invocation are its positional and its keyword
\* values.  An atomic symbol function takes the keyword values that are not
\* Symbols as parameters of the operator, so its inputs are its positional
\* values and its Symbol keywords, and it composes them once the native
\* operator has been created.
C12_ComposeRejectsInputs ==
    [][(/\ pc = "main"
        /\ \/ /\ inp'.op = "__call__"
              /\ \/ Len(inp'.args) # 0 /\ DOMAIN inp'.kwargs # {}
                 \/ NotAllSymbols(inp'.args, inp'.kwargs)
           \/ /\ inp'.op \in CreatorNames
              /\ \E c \in 1..Len(log') : log'[c].fn = "MXSymbolCreateAtomicSymbol"
              /\ \/ Len(inp'.args) # 0 /\ SymbolKeywords(inp'.kwargs) # {}
                 \/ NotAllSymbols(inp'.args, EmptyDict))
         => Rejected]_vars

C12_Witness ==
    /\ pc = "returned"
    /\ inp.op \in CreatorNames
    /\ Len(inp.args) # 0
    /\ \A i \in 1..Len(inp.args) : inp.args[i].cls = "Symbol"
    /\ SymbolKeywords(inp.kwargs) # {}
    /\ Calls("MXSymbolCreateAtomicSymbol") # {}
    /\ out.err.type = "TypeError"

\* C14: every native symbol handle that was created is held by exactly one
\* Symbol object, which frees it at most once.
C14_HandleOwnership ==
    \A h \in 1..Len(heap) : wrappers[h] = 1 /\ freed[h] <= 1

====
